---- MODULE Spec2Model ----
(***************************************************************************)
(* Majority-color task generator (src/src/generator.py, TaskGenerator).    *)
(*                                                                         *)
(* Three specifications share the definitions below:                       *)
(*   Spec        generate_task_pair, the whole call as one action          *)
(*   SpecCounts  the population plan of _generate_task_data (lines         *)
(*               102-140) and direct calls of _distribute_shapes           *)
(*   SpecAnim    direct calls of _create_animation_frames                  *)
(*                                                                         *)
(* Randomness (random.sample, choice, randint, shuffle) is a               *)
(* nondeterministic choice over every outcome the call can produce.        *)
(* A canvas is the sequence of ImageDraw primitive calls made on it over   *)
(* its background; PIL draws deterministically, so equal call sequences    *)
(* on equal backgrounds are pixel-identical images.                        *)
(***************************************************************************)
EXTENDS Integers, Sequences, FiniteSets, TLC

VARIABLES cfg, video_generator, pc, plan, task_data, first_image,
          final_image, made_dirs, encoder_calls, pair, raised, dist, anim

vars == <<cfg, video_generator, pc, plan, task_data, first_image,
          final_image, made_dirs, encoder_calls, pair, raised, dist, anim>>

(***************************************************************************)
(* Bounds of the model                                                     *)
(***************************************************************************)
\* Spec: largest num_shapes / num_colors of a configuration
MaxShapes == 4
MaxColors == 2
\* Spec: largest max_shape_size and the canvas side of the geometry family
MaxSize == 4
CanvasSide == 2
\* Spec: largest num_shapes of a configuration with mixed shape types
MaxTypedShapes == 3
\* SpecCounts: largest num_shapes / num_colors of a population plan
MaxPlanShapes == 10
MaxPlanColors == 3
\* SpecCounts: largest total / num_colors of a direct _distribute_shapes call
MaxTotal == 4
MaxOther == 3
\* SpecAnim: largest hold_frames / transition_frames
MaxHold == 2
MaxTransition == 3

(***************************************************************************)
(* Helpers                                                                 *)
(***************************************************************************)
None == "None"

Max(a, b) == IF a >= b THEN a ELSE b

Min(a, b) == IF a <= b THEN a ELSE b

Range(s) == {s[i] : i \in 1..Len(s)}

\* Python's [x] * n: the empty list when n <= 0
Repeat(x, n) == [i \in 1..n |-> x]

RECURSIVE Sum(_)
Sum(s) == IF s = <<>> THEN 0 ELSE Head(s) + Sum(Tail(s))

RECURSIVE Concat(_)
Concat(ss) == IF ss = <<>> THEN <<>> ELSE Head(ss) \o Concat(Tail(ss))

\* random.randint(a, b): every integer of [a, b]; empty when a > b, where
\* randint raises ValueError
RandInt(a, b) == a..b

(***************************************************************************)
(* __init__: palette and names                                             *)
(***************************************************************************)
color_palette ==
    << <<255, 0, 0>>, <<0, 255, 0>>, <<0, 0, 255>>, <<255, 255, 0>>,
       <<255, 0, 255>>, <<0, 255, 255>>, <<255, 165, 0>>, <<128, 0, 128>>,
       <<255, 192, 203>>, <<165, 42, 42>> >>

color_names ==
    [c \in Range(color_palette) |->
        CASE c = <<255, 0, 0>> -> "red"
          [] c = <<0, 255, 0>> -> "green"
          [] c = <<0, 0, 255>> -> "blue"
          [] c = <<255, 255, 0>> -> "yellow"
          [] c = <<255, 0, 255>> -> "magenta"
          [] c = <<0, 255, 255>> -> "cyan"
          [] c = <<255, 165, 0>> -> "orange"
          [] c = <<128, 0, 128>> -> "purple"
          [] c = <<255, 192, 203>> -> "pink"
          [] c = <<165, 42, 42>> -> "brown"]

(***************************************************************************)
(* _generate_task_data, lines 102-140: the population plan                 *)
(***************************************************************************)
\* random.sample(population, k): every ordered choice of k distinct
\* elements; none for a negative k or a k above the population's size,
\* where random.sample raises ValueError
RECURSIVE Sample(_, _)
Sample(population, k) ==
    IF k < 0 THEN {}
    ELSE IF k = 0 THEN {<<>>}
    ELSE UNION {{Append(s, c) : c \in Range(population) \ Range(s)} :
                  s \in Sample(population, k - 1)}

\* line 105
NumColors(c) == Min(c.num_colors, Len(color_palette))

\* line 110: [c for c in selected_colors if c != majority_color]
OtherColors(selected_colors, majority_color) ==
    SelectSeq(selected_colors, LAMBDA c : c # majority_color)

\* line 115, the lower limit of the majority count
MajorityLowMissingPlusOne(num_shapes) == Max(1, num_shapes \div 2)
MajorityLow(num_shapes) == Max(1, num_shapes \div 2 + 1)

\* line 116, the upper limit of the majority count
MajorityHighIgnoresOthers(num_shapes, num_other) == num_shapes
MajorityHigh(num_shapes, num_other) == num_shapes - num_other

\* lines 184-187: one random increment applied to every partial result
Increment(results, num_colors) ==
    {[r EXCEPT ![i] = r[i] + 1] : r \in results, i \in 1..num_colors}

RECURSIVE Increments(_, _, _)
Increments(results, num_colors, remaining) ==
    IF remaining <= 0 THEN results
    ELSE Increments(Increment(results, num_colors), num_colors, remaining - 1)

\* _distribute_shapes(total, num_colors): every list it can return
DistributeShapesFirstGetZero(total, num_colors) ==
    IF num_colors = 0 THEN {<<>>}
    ELSE IF total < num_colors
         THEN {Repeat(0, num_colors - total) \o Repeat(1, total)}
         ELSE Increments({Repeat(1, num_colors)}, num_colors, total - num_colors)
DistributeShapes(total, num_colors) ==
    IF num_colors = 0 THEN {<<>>}
    ELSE IF total < num_colors
         THEN {Repeat(1, total) \o Repeat(0, num_colors - total)}
         ELSE Increments({Repeat(1, num_colors)}, num_colors, total - num_colors)

\* lines 128-131 and 137-140: a block of count shapes of one color
ColorBlock(color, is_majority, count) ==
    Repeat([color |-> color, is_majority |-> is_majority], count)

\* lines 123-140: majority shapes first, then each other color's shapes
\* (count = other_counts[i] if i < len(other_counts) else 1)
BuildShapes(majority_color, majority_count, other_colors, other_counts) ==
    ColorBlock(majority_color, TRUE, majority_count) \o
    Concat([i \in 1..Len(other_colors) |->
              ColorBlock(other_colors[i], FALSE,
                         IF i <= Len(other_counts) THEN other_counts[i] ELSE 1)])

NoPlan == [status |-> "none"]

\* lines 108-140 once the colors are sampled: plan' is a population, or
\* randint of line 114 raises ValueError on an empty range
BuildPopulationOf(c, selected_colors) ==
      \E majority_color \in Range(selected_colors) :
        LET other_colors == OtherColors(selected_colors, majority_color)
            num_shapes == c.num_shapes
            low == MajorityLow(num_shapes)
            high == MajorityHigh(num_shapes, Len(other_colors))
        IN IF RandInt(low, high) = {}
           THEN plan' = [status |-> "ValueError", line |-> 114,
                         num_shapes |-> num_shapes,
                         num_other |-> Len(other_colors),
                         low |-> low, high |-> high]
           ELSE \E majority_count \in RandInt(low, high) :
                  LET remaining == num_shapes - majority_count
                  IN \E other_counts \in
                          DistributeShapes(remaining, Len(other_colors)) :
                       plan' = [status |-> "ok",
                                num_shapes |-> num_shapes,
                                selected_colors |-> selected_colors,
                                majority_color |-> majority_color,
                                other_colors |-> other_colors,
                                low |-> low, high |-> high,
                                majority_count |-> majority_count,
                                remaining |-> remaining,
                                other_counts |-> other_counts,
                                shapes |-> BuildShapes(majority_color,
                                              majority_count, other_colors,
                                              other_counts)]

\* lines 102-140 for configuration c: random.sample of line 106 raises
\* ValueError for a negative num_colors; random.choice of line 109 raises
\* IndexError on an empty sample; otherwise as BuildPopulationOf
BuildPopulation(c) ==
    IF Sample(color_palette, NumColors(c)) = {}
    THEN plan' = [status |-> "ValueError", line |-> 106]
    ELSE \E selected_colors \in Sample(color_palette, NumColors(c)) :
           IF selected_colors = <<>>
           THEN plan' = [status |-> "IndexError", line |-> 109]
           ELSE BuildPopulationOf(c, selected_colors)

(***************************************************************************)
(* _generate_task_data, lines 142-169: shuffle, types, sizes, positions    *)
(***************************************************************************)
Swap(s, i, j) == [s EXCEPT ![i] = s[j], ![j] = s[i]]

\* random.shuffle: for i from the last index down to the second, swap the
\* element at i with one at a random index j <= i
RECURSIVE ShuffleFrom(_, _)
ShuffleFrom(lists, i) ==
    IF i < 2 THEN lists
    ELSE ShuffleFrom({Swap(s, i, j) : s \in lists, j \in 1..i}, i - 1)

ShuffleKeepsOrder(shapes) == {shapes}
Shuffle(shapes) == ShuffleFrom({shapes}, Len(shapes))

\* lines 152-153: the limits of a coordinate along an axis of length extent
PositionLowZero(size) == 0
PositionLow(size) == size \div 2

PositionHigh(extent, size) == extent - size \div 2

\* lines 148-153 for one shape of the given type and size: every position
\* the two randint calls can give (none when a range is empty)
ShapePlacements(c, t, size) ==
    {[type |-> t, size |-> size, x |-> x, y |-> y] :
        x \in RandInt(PositionLow(size), PositionHigh(c.image_size[1], size)),
        y \in RandInt(PositionLow(size), PositionHigh(c.image_size[2], size))}

\* lines 148-153 for one shape: every (type, size, x, y) the draws can give
Placements(c) ==
    UNION {ShapePlacements(c, t, size) :
             t \in Range(c.shape_types),
             size \in RandInt(c.min_shape_size, c.max_shape_size)}

\* lines 149-153: a randint of the loop can be handed an empty range
PlacementCanRaise(c) ==
    \/ RandInt(c.min_shape_size, c.max_shape_size) = {}
    \/ \E size \in RandInt(c.min_shape_size, c.max_shape_size) :
         \/ RandInt(PositionLow(size), PositionHigh(c.image_size[1], size)) = {}
         \/ RandInt(PositionLow(size), PositionHigh(c.image_size[2], size)) = {}

\* lines 155-162: one entry of shape_data
ShapeData(shape_info, g) ==
    [type |-> g.type, color |-> shape_info.color,
     is_majority |-> shape_info.is_majority,
     x |-> g.x, y |-> g.y, size |-> g.size]

NoTaskData == [status |-> "none"]

\* lines 142-169 on the shape list of the plan: task_data' is the returned
\* dict; or, in the loop's first round, random.choice of line 148 raises
\* IndexError on an empty shape_types; or a randint of the loop raises
\* ValueError
PlaceShapes(c, shape_list) ==
    \E shapes \in Shuffle(shape_list) :
      IF Len(shapes) > 0 /\ c.shape_types = <<>>
      THEN task_data' = [status |-> "IndexError"]
      ELSE \/ /\ Len(shapes) > 0
              /\ PlacementCanRaise(c)
              /\ task_data' = [status |-> "ValueError"]
           \/ \E g \in [1..Len(shapes) -> Placements(c)] :
                task_data' =
                  [status |-> "ok",
                   shapes |-> [i \in 1..Len(shapes) |->
                                 ShapeData(shapes[i], g[i])],
                   majority_color |-> plan'.majority_color,
                   majority_color_name |-> color_names[plan'.majority_color],
                   type |-> "default"]

\* _generate_task_data, the whole method
GenerateTaskData(c) ==
    /\ BuildPopulation(c)
    /\ IF plan'.status = "ok"
       THEN PlaceShapes(c, plan'.shapes)
       ELSE task_data' = [status |-> plan'.status]

(***************************************************************************)
(* Python floats.  A float is an IEEE-754 double: sign * m * 2^e with the  *)
(* significand m of MantissaBits bits (or m = 0).  Every operation gives   *)
(* the exact result rounded to the nearest double, ties to even.           *)
(* Significands and intermediate results are natural numbers held as       *)
(* little-endian sequences of limbs below LimbBase, without high zero      *)
(* limbs.  Subnormals, infinities and NaN do not arise for the values the  *)
(* generator computes and are not represented.                             *)
(***************************************************************************)
MantissaBits == 53

LimbBits == 14

LimbBase == 2^LimbBits

\* the element of a one-element set.  The({F(v) : v \in {x}}) is F(x) with
\* the argument evaluated once, before F is applied, as Python evaluates the
\* arguments of a call
The(S) == CHOOSE r \in S : TRUE

\* the limbs of a without its high zero limbs
RECURSIVE BigNormTo(_, _)
BigNormTo(a, n) ==
    IF n = 0 THEN <<>>
    ELSE IF a[n] = 0 THEN BigNormTo(a, n - 1) ELSE SubSeq(a, 1, n)

BigNorm(a) == The({BigNormTo(v, Len(v)) : v \in {a}})

RECURSIVE BigFromNat(_)
BigFromNat(n) ==
    IF n = 0 THEN <<>> ELSE <<n % LimbBase>> \o BigFromNat(n \div LimbBase)

RECURSIVE BigToNatFrom(_, _)
BigToNatFrom(a, i) ==
    IF i > Len(a) THEN 0 ELSE a[i] + LimbBase * BigToNatFrom(a, i + 1)

BigToNat(a) == The({BigToNatFrom(v, 1) : v \in {a}})

\* limb i of a, 0 beyond its length
Limb(a, i) == IF i <= Len(a) THEN a[i] ELSE 0

\* the limbs of a + b from limb i on, given the carry into limb i
RECURSIVE BigAddFrom(_, _, _, _)
BigAddFrom(a, b, i, carry) ==
    IF i > Len(a) /\ i > Len(b)
    THEN (IF carry = 0 THEN <<>> ELSE <<carry>>)
    ELSE The({<<t % LimbBase>> \o BigAddFrom(a, b, i + 1, t \div LimbBase) :
                t \in {Limb(a, i) + Limb(b, i) + carry}})

BigAdd(a, b) == The({BigAddFrom(u, v, 1, 0) : u \in {a}, v \in {b}})

\* the limbs of a - b from limb i on, given the borrow from limb i (a >= b)
RECURSIVE BigSubFrom(_, _, _, _)
BigSubFrom(a, b, i, borrow) ==
    IF i > Len(a) THEN <<>>
    ELSE The({<<t % LimbBase>> \o
              BigSubFrom(a, b, i + 1, IF t < 0 THEN 1 ELSE 0) :
                t \in {Limb(a, i) - Limb(b, i) - borrow}})

BigSub(a, b) == BigNorm(The({BigSubFrom(u, v, 1, 0) : u \in {a}, v \in {b}}))

\* -1, 0 or 1 as a < b, a = b or a > b, comparing from limb i down
RECURSIVE BigCmpFrom(_, _, _)
BigCmpFrom(a, b, i) ==
    IF i = 0 THEN 0
    ELSE IF a[i] # b[i] THEN (IF a[i] < b[i] THEN -1 ELSE 1)
    ELSE BigCmpFrom(a, b, i - 1)

BigCmp(a, b) ==
    The({IF Len(u) # Len(v)
         THEN (IF Len(u) < Len(v) THEN -1 ELSE 1)
         ELSE BigCmpFrom(u, v, Len(u)) : u \in {a}, v \in {b}})

\* the limbs of a * k from limb i on, given the carry (0 <= k < LimbBase)
RECURSIVE BigMulSmallFrom(_, _, _, _)
BigMulSmallFrom(a, k, i, carry) ==
    IF i > Len(a) THEN (IF carry = 0 THEN <<>> ELSE <<carry>>)
    ELSE The({<<t % LimbBase>> \o
              BigMulSmallFrom(a, k, i + 1, t \div LimbBase) :
                t \in {a[i] * k + carry}})

BigMulSmall(a, k) == The({BigMulSmallFrom(u, v, 1, 0) : u \in {a}, v \in {k}})

\* a * (the limbs of b from limb j on)
RECURSIVE BigMulFrom(_, _, _)
BigMulFrom(a, b, j) ==
    IF j > Len(b) THEN <<>>
    ELSE BigAdd(BigMulSmall(a, b[j]), <<0>> \o BigMulFrom(a, b, j + 1))

BigMul(a, b) ==
    The({IF u = <<>> \/ v = <<>> THEN <<>>
         ELSE BigNorm(BigMulFrom(u, v, 1)) : u \in {a}, v \in {b}})

\* the limbs of a \div d from limb i down to the lowest, given the
\* remainder of the limbs above (0 < d < 2^17)
RECURSIVE BigDivSmallFrom(_, _, _, _)
BigDivSmallFrom(a, d, i, rem) ==
    IF i = 0 THEN <<>>
    ELSE The({BigDivSmallFrom(a, d, i - 1, t % d) \o <<t \div d>> :
                t \in {rem * LimbBase + a[i]}})

BigDivSmall(a, d) ==
    BigNorm(The({BigDivSmallFrom(u, v, Len(u), 0) : u \in {a}, v \in {d}}))

RECURSIVE BigModSmallFrom(_, _, _, _)
BigModSmallFrom(a, d, i, rem) ==
    IF i = 0 THEN rem
    ELSE The({BigModSmallFrom(a, d, i - 1, t) :
                t \in {(rem * LimbBase + a[i]) % d}})

BigModSmall(a, d) ==
    The({BigModSmallFrom(u, v, Len(u), 0) : u \in {a}, v \in {d}})

\* a * 2^k
BigShl(a, k) ==
    The({IF u = <<>> THEN u
         ELSE [i \in 1..(n \div LimbBits) |-> 0] \o
              BigMulSmall(u, 2^(n % LimbBits)) : u \in {a}, n \in {k}})

\* floor(a / 2^k)
BigShr(a, k) ==
    The({IF n \div LimbBits >= Len(u) THEN <<>>
         ELSE BigDivSmall(SubSeq(u, n \div LimbBits + 1, Len(u)),
                          2^(n % LimbBits)) : u \in {a}, n \in {k}})

RECURSIVE BitLenNat(_)
BitLenNat(n) == IF n = 0 THEN 0 ELSE 1 + BitLenNat(n \div 2)

BigBitLen(a) ==
    The({IF v = <<>> THEN 0
         ELSE LimbBits * (Len(v) - 1) + BitLenNat(v[Len(v)]) : v \in {a}})

FZero == [s |-> 1, m |-> <<>>, e |-> 0]

\* s * r * 2^E for a rounded significand r of at most MantissaBits + 1 bits
FNormalized(s, r, E) ==
    The({IF BigBitLen(v) > MantissaBits
         THEN [s |-> s, m |-> BigShr(v, 1), e |-> E + 1]
         ELSE [s |-> s, m |-> v, e |-> E] : v \in {r}})

\* M with its k lowest bits rounded away, to nearest, ties to even: q is the
\* quotient, c compares the remainder with half of 2^k
RoundedShr(M, k) ==
    The({IF c > 0 \/ (c = 0 /\ q[1] % 2 = 1) THEN BigAdd(q, <<1>>) ELSE q :
           q \in {BigShr(M, k)},
           c \in {BigCmp(BigSub(M, BigShl(BigShr(M, k), k)),
                         BigShl(<<1>>, k - 1))}})

\* the double nearest to s * M * 2^E, ties to even
FRound(s, M, E) ==
    The({IF V = <<>> THEN FZero
         ELSE IF L <= MantissaBits
         THEN [s |-> s, m |-> BigShl(V, MantissaBits - L),
               e |-> E - (MantissaBits - L)]
         ELSE FNormalized(s, RoundedShr(V, L - MantissaBits),
                          E + (L - MantissaBits)) :
           V \in {M}, L \in {BigBitLen(M)}})

\* float(n) for an int n
FFromInt(n) ==
    The({FRound(IF v < 0 THEN -1 ELSE 1,
                BigFromNat(IF v < 0 THEN -v ELSE v), 0) : v \in {n}})

\* x * y
FMul(x, y) ==
    The({FRound(u.s * v.s, BigMul(u.m, v.m), u.e + v.e) :
           u \in {x}, v \in {y}})

\* x + y for significands X, Y brought to the common exponent e
FAddAligned(sx, X, sy, Y, e) ==
    The({IF sx = sy THEN FRound(sx, BigAdd(U, V), e)
         ELSE IF BigCmp(U, V) >= 0
         THEN FRound(sx, BigSub(U, V), e)
         ELSE FRound(sy, BigSub(V, U), e) : U \in {X}, V \in {Y}})

\* x + y
FAdd(x, y) ==
    The({IF u.m = <<>> THEN v
         ELSE IF v.m = <<>> THEN u
         ELSE FAddAligned(u.s, BigShl(u.m, u.e - Min(u.e, v.e)),
                          v.s, BigShl(v.m, v.e - Min(u.e, v.e)),
                          Min(u.e, v.e)) : u \in {x}, v \in {y}})

\* -x
FNeg(x) == [x EXCEPT !.s = -@]

\* x - y
FSub(x, y) == FAdd(x, FNeg(y))

\* a / d for ints a >= 0 and 0 < d < 2^15 (true division); the quotient is
\* taken to more than MantissaBits + 1 bits, with a last bit that records a
\* non-zero remainder
FDivInts(a, d) ==
    The({FRound(1,
                BigAdd(BigMulSmall(BigDivSmall(N, d), 2),
                       IF BigModSmall(N, d) = 0 THEN <<>> ELSE <<1>>),
                -(5 * LimbBits) - 1) :
           N \in {BigShl(BigFromNat(a), 5 * LimbBits)}})

\* int(x): truncation toward zero
FTrunc(x) ==
    The({IF v.m = <<>> THEN 0
         ELSE v.s * BigToNat(IF v.e >= 0 THEN BigShl(v.m, v.e)
                             ELSE BigShr(v.m, -v.e)) : v \in {x}})

\* the literals 1.0 and 0.7
FOne == FFromInt(1)

FPointSeven == FDivInts(7, 10)

(***************************************************************************)
(* Images.  An image is its size, its mode and its pixels; the pixels are  *)
(* a background with the drawing calls made over it, or an operation on    *)
(* other pixels (blend, resize).  drawn records the _draw_shape calls made *)
(* on the image, whether or not they drew anything.                        *)
(***************************************************************************)
NoImage == [kind |-> "None"]

White == <<255, 255, 255>>

Black == <<0, 0, 0>>

FadeBackground == <<240, 240, 240>>

\* Image.new(mode, size, color)
NewImage(size, bg_color) ==
    [kind |-> "image", size |-> size, mode |-> "RGB",
     px |-> [op |-> "canvas", bg |-> bg_color, calls |-> <<>>],
     drawn |-> <<>>]

\* self.renderer.create_blank_image(bg_color): a blank canvas of the
\* renderer's image_size (line 32)
CreateBlankImage(c, bg_color) == NewImage(c.image_size, bg_color)

\* image.copy(): a new image with the same size, mode and pixels
Copy(img) == img

\* image.convert(mode); the generator's images are opaque, so RGB -> RGBA
\* adds a constant alpha channel and RGBA -> RGB drops it
Convert(img, mode) == [img EXCEPT !.mode = mode]

\* image.resize(size, LANCZOS)
Resize(img, size) ==
    [img EXCEPT !.size = size,
                !.px = [op |-> "resize", src |-> img.px, from |-> img.size]]

\* Image.blend(im1, im2, alpha) with alpha = num / den (den > 0): a copy of
\* im1 at alpha 0, a copy of im2 at alpha 1, the interpolation otherwise
Blend(im1, im2, num, den) ==
    IF num = 0 THEN Copy(im1)
    ELSE IF num = den THEN Copy(im2)
    ELSE [im1 EXCEPT !.px = [op |-> "blend", a |-> im1.px, b |-> im2.px,
                             num |-> num, den |-> den]]

(***************************************************************************)
(* _draw_shape                                                             *)
(***************************************************************************)
\* int(size * 0.7): the float product, truncated toward zero
EllipseHeight(size) == FTrunc(FMul(FFromInt(size), FPointSeven))

\* the ImageDraw calls _draw_shape makes for one shape
DrawCallsUnknownAsRectangle(shape_type, x, y, size, color) ==
    LET half_size == size \div 2
    IN IF shape_type = "circle"
       THEN << [op |-> "ellipse",
                xy |-> <<x - half_size, y - half_size,
                         x + half_size, y + half_size>>,
                fill |-> color, outline |-> Black, width |-> 2] >>
       ELSE << [op |-> "rectangle",
                xy |-> <<x - half_size, y - half_size,
                         x + half_size, y + half_size>>,
                fill |-> color, outline |-> Black, width |-> 2] >>
DrawCalls(shape_type, x, y, size, color) ==
    LET half_size == size \div 2
    IN CASE shape_type = "circle" ->
              << [op |-> "ellipse",
                  xy |-> <<x - half_size, y - half_size,
                           x + half_size, y + half_size>>,
                  fill |-> color, outline |-> Black, width |-> 2] >>
         [] shape_type = "rectangle" ->
              << [op |-> "rectangle",
                  xy |-> <<x - half_size, y - half_size,
                           x + half_size, y + half_size>>,
                  fill |-> color, outline |-> Black, width |-> 2] >>
         [] shape_type = "ellipse" ->
              LET w == size
                  h == EllipseHeight(size)
              IN << [op |-> "ellipse",
                     xy |-> <<x - w \div 2, y - h \div 2,
                              x + w \div 2, y + h \div 2>>,
                     fill |-> color, outline |-> Black, width |-> 2] >>
         [] shape_type = "triangle" ->
              << [op |-> "polygon",
                  xy |-> <<x, y - half_size,
                           x - half_size, y + half_size,
                           x + half_size, y + half_size>>,
                  fill |-> color, outline |-> Black, width |-> 2] >>
         [] OTHER -> <<>>

\* _draw_shape on the canvas img
DrawShape(img, shape_type, x, y, size, color) ==
    [img EXCEPT !.px.calls = @ \o DrawCalls(shape_type, x, y, size, color),
                !.drawn = Append(@, [type |-> shape_type, x |-> x, y |-> y,
                                     size |-> size, color |-> color])]

\* what two images are compared on for being pixel-identical
Pixels(img) == [size |-> img.size, mode |-> img.mode, px |-> img.px]

(***************************************************************************)
(* _render_initial_state, _render_final_state                              *)
(***************************************************************************)
\* lines 196-204: for shape in task_data["shapes"]: self._draw_shape(...)
RECURSIVE DrawShapes(_, _)
DrawShapes(img, shapes) ==
    IF shapes = <<>> THEN img
    ELSE LET shape == Head(shapes)
         IN DrawShapes(DrawShape(img, shape.type, shape.x, shape.y,
                                 shape.size, shape.color),
                       Tail(shapes))

\* lines 214-223: the same loop under "if shape["is_majority"]"
RECURSIVE DrawMajorityShapes(_, _)
DrawMajorityShapes(img, shapes) ==
    IF shapes = <<>> THEN img
    ELSE LET shape == Head(shapes)
         IN DrawMajorityShapes(
                IF shape.is_majority
                THEN DrawShape(img, shape.type, shape.x, shape.y,
                               shape.size, shape.color)
                ELSE img,
                Tail(shapes))

RenderInitialState(c, td) == DrawShapes(CreateBlankImage(c, White), td.shapes)

RenderFinalStateDrawsAll(c, td) ==
    DrawShapes(CreateBlankImage(c, White), td.shapes)
RenderFinalState(c, td) ==
    DrawMajorityShapes(CreateBlankImage(c, White), td.shapes)

(***************************************************************************)
(* _fade_color, _create_fade_animation_frames                              *)
(***************************************************************************)
\* the gray a faded color is blended with (bg_gray, line 265)
BgGray == 200

\* _fade_color(color, fade_factor):
\* int(c * fade_factor + bg_gray * (1 - fade_factor)) per channel, in floats
FadeColor(color, fade_factor) ==
    The({[k \in 1..Len(c) |->
            FTrunc(FAdd(FMul(FFromInt(c[k]), f),
                        FMul(FFromInt(BgGray), FSub(FOne, f))))] :
           c \in {color}, f \in {fade_factor}})

\* line 345: progress = i / (num_frames - 1) if num_frames > 1 else 1.0
Progress(i, num_frames) ==
    IF num_frames > 1 THEN FDivInts(i, num_frames - 1) ELSE FOne

\* line 357: fade_factor = 1.0 - progress * 0.7
FadeFactor(progress) == FSub(FOne, FMul(progress, FPointSeven))

\* lines 351-367: every shape drawn, the non-majority ones faded
RECURSIVE DrawFadedShapes(_, _, _)
DrawFadedShapes(img, shapes, fade_factor) ==
    IF shapes = <<>> THEN img
    ELSE LET shape == Head(shapes)
             color == IF shape.is_majority THEN shape.color
                      ELSE FadeColor(shape.color, fade_factor)
         IN DrawFadedShapes(DrawShape(img, shape.type, shape.x, shape.y,
                                      shape.size, color),
                            Tail(shapes), fade_factor)

\* _create_fade_animation_frames(task_data, first_image, num_frames)
CreateFadeAnimationFrames(c, td, first, num_frames) ==
    [k \in 1..num_frames |->
        The({DrawFadedShapes(NewImage(c.image_size, FadeBackground),
                             td.shapes, fade_factor) :
               fade_factor \in {FadeFactor(Progress(k - 1, num_frames))}})]

(***************************************************************************)
(* _create_animation_frames                                                *)
(***************************************************************************)
DefaultHoldFrames == 10

DefaultTransitionFrames == 20

\* line 318: alpha = i / (transition_frames - 1) if transition_frames > 1
\* else 1.0, as the fraction <<numerator, denominator>>
Alpha(i, transition_frames) ==
    IF transition_frames > 1 THEN <<i, transition_frames - 1>> ELSE <<1, 1>>

\* lines 311-320: the cross-fade frames
CrossFadeFrames(first, final, transition_frames) ==
    LET start_rgba == Convert(first, "RGBA")
        converted == Convert(final, "RGBA")
        end_rgba == IF start_rgba.size # converted.size
                    THEN Resize(converted, start_rgba.size)
                    ELSE converted
    IN [k \in 1..transition_frames |->
          LET alpha == Alpha(k - 1, transition_frames)
          IN Convert(Blend(start_rgba, end_rgba, alpha[1], alpha[2]), "RGB")]

\* lines 304-325: the hold of the first image, then the transition
HoldAndTransitionNoHold(c, td, first, final, hold_frames, transition_frames) ==
    IF final # NoImage
    THEN CrossFadeFrames(first, final, transition_frames)
    ELSE CreateFadeAnimationFrames(c, td, first, transition_frames)
HoldAndTransition(c, td, first, final, hold_frames, transition_frames) ==
    Repeat(Copy(first), hold_frames) \o
    (IF final # NoImage
     THEN CrossFadeFrames(first, final, transition_frames)
     ELSE CreateFadeAnimationFrames(c, td, first, transition_frames))

\* _create_animation_frames: the returned list, or IndexError when
\* frames[-1] is read from an empty list (line 328)
CreateAnimationFrames(c, td, first, final, hold_frames, transition_frames) ==
    The({IF final = NoImage /\ frames = <<>>
         THEN [status |-> "IndexError"]
         ELSE LET final_frame == IF final # NoImage THEN final
                                 ELSE frames[Len(frames)]
              IN [status |-> "ok",
                  frames |-> frames \o
                             Repeat(Copy(final_frame), hold_frames)] :
           frames \in {HoldAndTransition(c, td, first, final, hold_frames,
                                         transition_frames)}})

(***************************************************************************)
(* _generate_video, get_prompt, generate_task_pair                         *)
(***************************************************************************)
\* A str that pathlib reads is held as its pieces in order: each piece is
\* the separator "/" or a longest run of other characters, so "/var/tmp" is
\* <<"/", "var", "/", "tmp">> and "" is <<>>.
\* a + b for two such strs: the pieces on both sides of the seam run together
Cat(a, b) ==
    IF a # <<>> /\ b # <<>> /\ a[Len(a)] # "/" /\ b[1] # "/"
    THEN SubSeq(a, 1, Len(a) - 1) \o <<a[Len(a)] \o b[1]>> \o Tail(b)
    ELSE a \o b

\* the number of separators a str starts with
RECURSIVE LeadingSeps(_)
LeadingSeps(text) ==
    IF text = <<>> \/ text[1] # "/" THEN 0 ELSE 1 + LeadingSeps(Tail(text))

\* pathlib's root of a str (POSIX): exactly two leading separators are kept
\* as "//", any other number is "/"
Root(text) ==
    The({IF n = 0 THEN "" ELSE IF n = 2 THEN "//" ELSE "/" :
           n \in {LeadingSeps(text)}})

\* pathlib's names of a str: what stands between separators, without the
\* empty names and the names "."
Names(text) == SelectSeq(text, LAMBDA piece : piece # "/" /\ piece # ".")

\* Path(text)
ParsePath(text) == [root |-> Root(text), names |-> Names(text)]

\* path / text: a text with a root replaces the path
JoinPath(path, text) ==
    IF Root(text) # "" THEN ParsePath(text)
    ELSE [root |-> path.root, names |-> path.names \o Names(text)]

RECURSIVE JoinNames(_)
JoinNames(names) ==
    IF names = <<>> THEN ""
    ELSE IF Len(names) = 1 THEN names[1]
    ELSE names[1] \o "/" \o JoinNames(Tail(names))

\* str(path): the root, then the names joined by "/"; "." for the empty path
Str(path) ==
    IF path.root = "" /\ path.names = <<>> THEN "."
    ELSE path.root \o JoinNames(path.names)

\* the directories the environment can offer (TMPDIR, TEMP, TMP, then the
\* platform's defaults), as absolute normalised paths
TempDirs ==
    {<<"/", "tmp">>, <<"/", "var", "/", "tmp">>, <<"/">>, <<"/", "/">>}

\* tempfile.gettempdir(): the first of those directories a file can be made
\* in, or FileNotFoundError when there is none
GetTempDir ==
    {[status |-> "ok", dir |-> temp_dir] : temp_dir \in TempDirs}
    \cup {[status |-> "FileNotFoundError"]}

\* line 279: Path(tempfile.gettempdir()) / f"{self.config.domain}_videos"
VideoDir(c, temp_dir) ==
    JoinPath(ParsePath(temp_dir), Cat(c.domain, <<"_videos">>))

\* line 280, temp_dir.mkdir(parents=True, exist_ok=True): None when the
\* directory is there afterwards, or the OSError the file system answers
\* with: a file of that name, a parent that cannot be written or is a file,
\* a parent that is not there when the directory is made (it vanished, or
\* the file system answers so), or any other refusal (a read-only file
\* system, a name too long)
MkdirOutcomes ==
    {None, "FileExistsError", "PermissionError", "NotADirectoryError",
     "FileNotFoundError", "OSError"}

\* path.parents and the path itself: parents=True makes each one that is
\* missing, so all of them are directories once mkdir has returned
WithParents(path) ==
    {[root |-> path.root, names |-> SubSeq(path.names, 1, i)] :
       i \in 0..Len(path.names)}

\* the parents of path with fewer than n names: what a mkdir that raises
\* on a later directory of the chain has already made or found
ParentsBelow(path, n) == {d \in WithParents(path) : Len(d.names) < n}

\* line 281: temp_dir / f"{task_id}_ground_truth.mp4"
VideoPath(c, task_id, temp_dir) ==
    JoinPath(VideoDir(c, temp_dir), Cat(task_id, <<"_ground_truth.mp4">>))

\* what create_video_from_frames returns for the target path: the written
\* path, or a falsy result
EncoderResults(video_path) ==
    {[truthy |-> TRUE, path |-> video_path], [truthy |-> FALSE]}

\* line 291: str(result) if result else None
VideoResult(result) == IF result.truthy THEN Str(result.path) ELSE None

PROMPTS ==
    [default |->
       <<"Identify which color appears most frequently in the image. Show the majority color by highlighting or emphasizing it.",
         "Determine the dominant color in this image. Animate to reveal which color has the most presence.",
         "Find the color that appears most often. Create a video that demonstrates the majority color.",
         "What is the most common color in this image? Show the answer by highlighting the majority color.",
         "Count the colors and identify which one is in the majority. Visualize the result by emphasizing the dominant color.">>,
     highlight |->
       <<"Highlight all instances of the majority color in the image.",
         "Show which color is most frequent by making it stand out.",
         "Emphasize the dominant color by highlighting it throughout the image.">>,
     reveal |->
       <<"Reveal the answer by showing only the majority color.",
         "Fade out all colors except the majority color to reveal the answer.",
         "Show the majority color by removing all other colors.">>]

\* get_prompt(task_type): every prompt random.choice can return
GetPrompt(task_type) ==
    IF task_type \in DOMAIN PROMPTS THEN Range(PROMPTS[task_type])
    ELSE Range(PROMPTS["default"])

NoPair == [status |-> "none"]

\* lines 80-82: whether generate_task_pair calls _generate_video
VideoWantedIgnoresGenerator(c, generator) == c.generate_videos
VideoWanted(c, generator) == c.generate_videos /\ generator # None

\* lines 283-284: the frames handed to the encoder
VideoFrames(c, td, first, final) ==
    CreateAnimationFrames(c, td, first, final, DefaultHoldFrames,
                          DefaultTransitionFrames).frames

\* lines 87-94
TaskPair(task_id, c, prompt, first, final, video_path) ==
    [status |-> "returned", task_id |-> task_id, domain |-> c.domain,
     prompt |-> prompt, first_image |-> first, final_image |-> final,
     ground_truth_video |-> video_path, goal_text |-> None]

\* the task ids handed to generate_task_pair: the usual form, and one that
\* starts at the root and holds a "." name and a doubled separator
TaskIds ==
    {<<"majority_0000">>, <<"/", "abs", "/", ".", "/", "a", "/", "/", "b">>}

\* lines 84-94: a prompt is chosen and the pair returned
ReturnPair(task_id, video_path) ==
    /\ \E prompt \in GetPrompt(task_data'.type) :
         pair' = TaskPair(task_id, cfg, prompt, first_image', final_image',
                          video_path)
    /\ raised' = None
    /\ pc' = "returned"

\* lines 280-291 in the temporary directory temp_dir, and the return of the
\* result: mkdir raises, after making none, some or all of the parents; or
\* the directory and its missing parents are made, the encoder is called
\* once with the frames and the path, and the pair is returned
MakeVideo(task_id, temp_dir) ==
    \E made \in MkdirOutcomes :
      IF made # None
      THEN /\ \E n \in 0..Len(VideoDir(cfg, temp_dir).names) :
                made_dirs' = made_dirs \cup
                  {Str(d) : d \in ParentsBelow(VideoDir(cfg, temp_dir), n)}
           /\ raised' = made
           /\ pc' = "raised"
           /\ UNCHANGED <<encoder_calls, pair>>
      ELSE /\ made_dirs' = made_dirs \cup
                           {Str(d) : d \in WithParents(VideoDir(cfg, temp_dir))}
           /\ \E result \in EncoderResults(VideoPath(cfg, task_id, temp_dir)) :
                /\ encoder_calls' = Append(encoder_calls,
                     [frames |-> VideoFrames(cfg, task_data',
                                             first_image', final_image'),
                      path |-> VideoPath(cfg, task_id, temp_dir),
                      result |-> result])
                /\ ReturnPair(task_id, VideoResult(result))

\* _generate_video (lines 271-291) and the return of its result:
\* tempfile.gettempdir() raises, or the rest runs in the directory it gives
GenerateVideo(task_id) ==
    \E tmp \in GetTempDir :
      IF tmp.status # "ok"
      THEN /\ raised' = tmp.status
           /\ pc' = "raised"
           /\ UNCHANGED <<made_dirs, encoder_calls, pair>>
      ELSE MakeVideo(task_id, tmp.dir)

\* generate_task_pair(task_id), the whole call: it returns a TaskPair, or an
\* exception of _generate_task_data or of _generate_video reaches the caller
GenerateTaskPair ==
    /\ pc = "idle"
    /\ \E task_id \in TaskIds :
         /\ GenerateTaskData(cfg)
         /\ IF task_data'.status # "ok"
            THEN /\ raised' = task_data'.status
                 /\ pc' = "raised"
                 /\ UNCHANGED <<first_image, final_image, made_dirs,
                                encoder_calls, pair>>
            ELSE /\ first_image' = RenderInitialState(cfg, task_data')
                 /\ final_image' = RenderFinalState(cfg, task_data')
                 /\ IF VideoWanted(cfg, video_generator)
                    THEN GenerateVideo(task_id)
                    ELSE /\ UNCHANGED <<made_dirs, encoder_calls>>
                         /\ ReturnPair(task_id, None)
    /\ UNCHANGED <<cfg, video_generator, dist, anim>>

(***************************************************************************)
(* Spec: generate_task_pair on a generator built from a configuration      *)
(***************************************************************************)
Config(num_shapes, num_colors, shape_types, min_size, max_size, size, videos) ==
    [image_size |-> size, num_colors |-> num_colors, num_shapes |-> num_shapes,
     shape_types |-> shape_types, min_shape_size |-> min_size,
     max_shape_size |-> max_size, generate_videos |-> videos,
     domain |-> <<"majority_color">>]

\* a shape size that fills its square canvas: one size, one position
FullSize == 2 * CanvasSide

\* every shape count and color count, one shape type, one size, one position
CountConfigs ==
    {Config(n, k, <<"circle">>, FullSize, FullSize,
            <<FullSize, FullSize>>, FALSE) :
       n \in 1..MaxShapes, k \in 1..MaxColors}

\* shape lists mixing a drawable type with one _draw_shape does not know
TypeConfigs ==
    {Config(n, k, <<"circle", "star">>, FullSize, FullSize,
            <<FullSize, FullSize>>, FALSE) :
       n \in 1..MaxTypedShapes, k \in 1..MaxColors}

\* one shape of every type, size range and position on a small canvas; the
\* largest sizes do not fit the canvas
GeometryConfigs ==
    {Config(1, 1, <<"circle", "rectangle", "ellipse", "triangle", "star">>,
            lo, hi, <<CanvasSide + 1, CanvasSide>>, FALSE) :
       lo \in 1..MaxSize, hi \in 1..MaxSize}

\* video generation switched on or off
VideoConfigs ==
    {Config(1, 1, <<"triangle">>, FullSize, FullSize,
            <<FullSize, FullSize>>, videos) : videos \in BOOLEAN}

\* configurations on which random.sample or random.choice raises: no
\* colors, a negative number of colors, no shape types
EmptyConfigs ==
    {Config(1, k, <<"circle">>, FullSize, FullSize,
            <<FullSize, FullSize>>, FALSE) : k \in {-1, 0}}
    \cup {Config(1, 1, <<>>, FullSize, FullSize, <<FullSize, FullSize>>, FALSE)}

Configs ==
    CountConfigs \cup TypeConfigs \cup GeometryConfigs \cup VideoConfigs
    \cup EmptyConfigs

NoDist == [status |-> "none"]

NoAnim == [status |-> "none"]

\* __init__ (lines 30-37): the encoder exists only when videos are wanted
\* and VideoGenerator.is_available()
Init ==
    /\ cfg \in Configs
    /\ \E available \in BOOLEAN :
         video_generator = IF cfg.generate_videos /\ available
                           THEN "VideoGenerator" ELSE None
    /\ pc = "idle"
    /\ plan = NoPlan
    /\ task_data = NoTaskData
    /\ first_image = NoImage
    /\ final_image = NoImage
    /\ made_dirs = {}
    /\ encoder_calls = <<>>
    /\ pair = NoPair
    /\ raised = None
    /\ dist = NoDist
    /\ anim = NoAnim

Next == GenerateTaskPair

Spec == Init /\ [][Next]_vars

(***************************************************************************)
(* SpecCounts: the population plan (lines 102-140) for larger shape and    *)
(* color counts, and _distribute_shapes called on its own                  *)
(***************************************************************************)
PlanConfigs ==
    {Config(n, k, <<"circle">>, FullSize, FullSize,
            <<FullSize, FullSize>>, FALSE) :
       n \in 1..MaxPlanShapes, k \in -1..MaxPlanColors}

InitCounts ==
    /\ cfg \in PlanConfigs
    /\ video_generator = None
    /\ pc = "idle"
    /\ plan = NoPlan
    /\ task_data = NoTaskData
    /\ first_image = NoImage
    /\ final_image = NoImage
    /\ made_dirs = {}
    /\ encoder_calls = <<>>
    /\ pair = NoPair
    /\ raised = None
    /\ dist = NoDist
    /\ anim = NoAnim

\* lines 102-140 of _generate_task_data
PlanPopulation ==
    /\ pc = "idle"
    /\ BuildPopulation(cfg)
    /\ pc' = "planned"
    /\ UNCHANGED <<cfg, video_generator, task_data, first_image, final_image,
                   made_dirs, encoder_calls, pair, raised, dist, anim>>

\* _distribute_shapes(total, num_colors)
CallDistributeShapes ==
    /\ pc = "idle"
    /\ \E total \in 0..MaxTotal, num_colors \in 0..MaxOther :
         \E result \in DistributeShapes(total, num_colors) :
           dist' = [status |-> "returned", total |-> total,
                    num_colors |-> num_colors, result |-> result]
    /\ pc' = "distributed"
    /\ UNCHANGED <<cfg, video_generator, plan, task_data, first_image,
                   final_image, made_dirs, encoder_calls, pair, raised, anim>>

NextCounts == PlanPopulation \/ CallDistributeShapes

SpecCounts == InitCounts /\ [][NextCounts]_vars

(***************************************************************************)
(* SpecAnim: _create_animation_frames called on its own                    *)
(***************************************************************************)
\* a population of one majority and one other shape
AnimTaskData ==
    [status |-> "ok",
     shapes |-> << [type |-> "circle", color |-> color_palette[1],
                    is_majority |-> TRUE, x |-> 1, y |-> 1, size |-> 2],
                   [type |-> "rectangle", color |-> color_palette[7],
                    is_majority |-> FALSE, x |-> 1, y |-> 1, size |-> 2] >>,
     majority_color |-> color_palette[1],
     majority_color_name |-> color_names[color_palette[1]],
     type |-> "default"]

AnimConfigs ==
    {Config(2, 2, <<"circle", "rectangle">>, 2, 2, <<side, side>>, TRUE) :
       side \in {CanvasSide, CanvasSide + 1}}

InitAnim ==
    /\ cfg \in AnimConfigs
    /\ video_generator = None
    /\ pc = "idle"
    /\ plan = NoPlan
    /\ task_data = AnimTaskData
    /\ first_image \in {RenderInitialState(c, AnimTaskData) : c \in AnimConfigs}
    /\ final_image \in {NoImage} \cup
                       {RenderFinalState(c, AnimTaskData) : c \in AnimConfigs}
    /\ made_dirs = {}
    /\ encoder_calls = <<>>
    /\ pair = NoPair
    /\ raised = None
    /\ dist = NoDist
    /\ anim \in [status : {"call"}, hold_frames : 0..MaxHold,
                 transition_frames : 0..MaxTransition]

\* _create_animation_frames(task_data, first_image, final_image,
\*                          hold_frames, transition_frames)
CallCreateAnimationFrames ==
    /\ pc = "idle"
    /\ anim.status = "call"
    /\ \E out \in {CreateAnimationFrames(cfg, task_data, first_image,
                      final_image, anim.hold_frames, anim.transition_frames)} :
          IF out.status = "ok"
          THEN /\ anim' = [anim EXCEPT !.status = "returned"] @@
                          [frames |-> out.frames]
               /\ raised' = None
               /\ pc' = "returned"
          ELSE /\ anim' = [anim EXCEPT !.status = "raised"]
               /\ raised' = out.status
               /\ pc' = "raised"
    /\ UNCHANGED <<cfg, video_generator, plan, task_data, first_image,
                   final_image, made_dirs, encoder_calls, pair, dist>>

NextAnim == CallCreateAnimationFrames

SpecAnim == InitAnim /\ [][NextAnim]_vars

(***************************************************************************)
(* Properties                                                              *)
(***************************************************************************)
\* how many elements of the sequence s satisfy Test
Count(s, Test(_)) == Cardinality({i \in 1..Len(s) : Test(s[i])})

KnownTypes == {"circle", "rectangle", "ellipse", "triangle"}

\* the arguments _draw_shape is called with for a shape
DrawArgs(shape) ==
    [type |-> shape.type, x |-> shape.x, y |-> shape.y, size |-> shape.size,
     color |-> shape.color]

\* Auxiliary (Spec): shuffling and placing keep the planned population: the
\* returned shapes are the planned ones in some order.
PlacementKeepsPopulation ==
    pc = "returned" =>
      /\ Len(task_data.shapes) = Len(plan.shapes)
      /\ \A info \in Range(plan.shapes) :
           Count(task_data.shapes,
                 LAMBDA sh : sh.color = info.color
                             /\ sh.is_majority = info.is_majority)
           = Count(plan.shapes, LAMBDA p : p = info)

\* C1 (SpecCounts): in every population the builder produces there is at
\* least one majority shape, the majority shapes are exactly the shapes of
\* the majority color, they number at least floor(n/2)+1, and they strictly
\* outnumber the shapes of every other single color.
C1_MajorityStrictlyLargest ==
    plan.status = "ok" =>
      LET majority == Count(plan.shapes, LAMBDA sh : sh.is_majority)
      IN /\ majority >= 1
         /\ majority >= cfg.num_shapes \div 2 + 1
         /\ \A sh \in Range(plan.shapes) :
              sh.is_majority <=> sh.color = plan.majority_color
         /\ \A color \in Range(color_palette) \ {plan.majority_color} :
              Count(plan.shapes, LAMBDA sh : sh.color = color) < majority

\* C1 witness: three colors, and the random increments all fell on one other
\* color, which has three shapes against a majority of six.
C1_Witness ==
    /\ plan.status = "ok"
    /\ cfg.num_colors = 3
    /\ plan.majority_count = 6
    /\ \E color \in Range(plan.other_colors) :
         Count(plan.shapes, LAMBDA sh : sh.color = color) = 3

\* the configurations claim C2 speaks of: num_shapes >= num_colors >= 1,
\* positive size bounds (here also: in order, every size fits the canvas, and
\* there is a shape type to choose)
C2_ValidConfig ==
    /\ cfg.num_shapes >= cfg.num_colors
    /\ cfg.num_colors >= 1
    /\ cfg.shape_types # <<>>
    /\ 1 <= cfg.min_shape_size
    /\ cfg.min_shape_size <= cfg.max_shape_size
    /\ cfg.max_shape_size <= cfg.image_size[1]
    /\ cfg.max_shape_size <= cfg.image_size[2]

\* C2 (Spec), the claim as stated: for every such configuration
\* _generate_task_data does not raise and returns a TaskData, and the
\* majority count is at least 1; with 2 shapes and 2 colors the other color
\* receives exactly the remainder.
C2_NeverRaises ==
    (pc # "idle" /\ C2_ValidConfig) =>
      /\ task_data.status = "ok"
      /\ plan.majority_count >= 1
      /\ (cfg.num_shapes = 2 /\ cfg.num_colors = 2) =>
           plan.other_counts = <<cfg.num_shapes - plan.majority_count>>

\* C3 (Spec): the initial frame is a white canvas on which _draw_shape was
\* called for every shape in list order; the final frame is a white canvas
\* on which it was called for exactly the is_majority shapes in their
\* relative order, so never for more shapes than the initial frame.
C3_FramesDrawShapesInOrder ==
    pc = "returned" =>
      LET shapes == task_data.shapes
          majority == SelectSeq(shapes, LAMBDA sh : sh.is_majority)
      IN /\ first_image.px.bg = White
         /\ final_image.px.bg = White
         /\ first_image.drawn = [i \in 1..Len(shapes) |-> DrawArgs(shapes[i])]
         /\ final_image.drawn = [i \in 1..Len(majority) |-> DrawArgs(majority[i])]
         /\ Len(final_image.drawn) <= Len(first_image.drawn)

\* C3 witness: a returned pair whose shape list has a non-majority shape
\* between two majority shapes of different types.
C3_Witness ==
    /\ pc = "returned"
    /\ Len(task_data.shapes) = 3
    /\ task_data.shapes[1].is_majority
    /\ ~task_data.shapes[2].is_majority
    /\ task_data.shapes[3].is_majority
    /\ task_data.shapes[1].type # task_data.shapes[3].type
    /\ Len(final_image.drawn) = 2
    /\ Len(first_image.drawn) = 3

\* C4 (SpecCounts): every non-majority color of selected_colors is on at
\* least one shape of a built population; _distribute_shapes gives every
\* color at least one shape when total >= num_colors, and when total <
\* num_colors gives one shape to each of the first total colors and none to
\* the later ones.
C4_NoColorDropped ==
    /\ plan.status = "ok" =>
         \A color \in Range(plan.selected_colors) \ {plan.majority_color} :
           \E sh \in Range(plan.shapes) : sh.color = color /\ ~sh.is_majority
    /\ dist.status = "returned" =>
         /\ Len(dist.result) = dist.num_colors
         /\ dist.total >= dist.num_colors =>
              /\ \A i \in 1..dist.num_colors : dist.result[i] >= 1
              /\ dist.num_colors > 0 => Sum(dist.result) = dist.total
         /\ dist.total < dist.num_colors =>
              \A i \in 1..dist.num_colors :
                dist.result[i] = IF i <= dist.total THEN 1 ELSE 0

\* C4 witness: _distribute_shapes returned for a budget smaller than the
\* number of colors: the first color has a shape and the last has none.
C4_Witness ==
    /\ dist.status = "returned"
    /\ 0 < dist.total
    /\ dist.total < dist.num_colors
    /\ dist.result[1] = 1
    /\ dist.result[dist.num_colors] = 0

\* C5 (SpecCounts): the majority count lies in
\* [max(1, floor(n/2)+1), n - len(other_colors)], which is [6, 8] for
\* 3 colors and 10 shapes, and is the number of is_majority shapes built.
C5_MajorityCountInRange ==
    plan.status = "ok" =>
      LET n == cfg.num_shapes
          half_plus_one == n \div 2 + 1
      IN /\ plan.majority_count >= (IF half_plus_one > 1 THEN half_plus_one ELSE 1)
         /\ plan.majority_count <= n - Len(plan.other_colors)
         /\ (n = 10 /\ cfg.num_colors = 3) => plan.majority_count \in 6..8
         /\ Count(plan.shapes, LAMBDA sh : sh.is_majority) = plan.majority_count

\* C5 witness: 3 colors, 10 shapes, and the count drawn is the upper end 8.
C5_Witness ==
    /\ plan.status = "ok"
    /\ cfg.num_shapes = 10
    /\ cfg.num_colors = 3
    /\ plan.majority_count = 8
    /\ Count(plan.shapes, LAMBDA sh : sh.is_majority) = 8

\* C6 (Spec): every returned shape has a size within the configured bounds
\* and a center at least half_size away from every canvas edge, so its
\* bounding box lies within [0, width] x [0, height].
C6_ShapesInsideCanvas ==
    pc = "returned" =>
      \A sh \in Range(task_data.shapes) :
        LET half_size == sh.size \div 2
            width == cfg.image_size[1]
            height == cfg.image_size[2]
        IN /\ cfg.min_shape_size <= sh.size
           /\ sh.size <= cfg.max_shape_size
           /\ half_size <= sh.x
           /\ sh.x <= width - half_size
           /\ half_size <= sh.y
           /\ sh.y <= height - half_size
           /\ 0 <= sh.x - half_size
           /\ sh.x + half_size <= width
           /\ 0 <= sh.y - half_size
           /\ sh.y + half_size <= height

\* C6 witness: a shape with a non-zero margin placed on the left and bottom
\* limits of its range, in a configuration with more than one size.
C6_Witness ==
    /\ pc = "returned"
    /\ cfg.min_shape_size < cfg.max_shape_size
    /\ \E sh \in Range(task_data.shapes) :
         /\ sh.size \div 2 >= 1
         /\ sh.x = sh.size \div 2
         /\ sh.y = cfg.image_size[2] - sh.size \div 2

\* the frames of a returned animation from index a to index b
FrameSlice(a, b) == {anim.frames[i] : i \in a..b}

\* C7 (SpecAnim), the claim as stated: for any hold_frames >= 0 and
\* transition_frames >= 0 the call returns 2*hold+transition frames, never
\* none, the first identical to first_image and the last to final_image.
C7_AsStated ==
    pc # "idle" =>
      /\ anim.status = "returned"
      /\ Len(anim.frames) = 2 * anim.hold_frames + anim.transition_frames
      /\ Len(anim.frames) > 0
      /\ anim.frames[1] = first_image
      /\ final_image # NoImage => anim.frames[Len(anim.frames)] = final_image

\* C7 amended (SpecAnim): a returned list has 2*hold+transition frames; with
\* hold_frames >= 1 the call returns, the list is not empty, it starts with
\* hold_frames copies of first_image and ends with hold_frames copies of
\* final_image, or with no final image of the frame before them.
C7_HoldTransitionHold ==
    /\ anim.status = "returned" =>
         Len(anim.frames) = 2 * anim.hold_frames + anim.transition_frames
    /\ (pc # "idle" /\ anim.hold_frames >= 1) =>
         LET h == anim.hold_frames
             t == anim.transition_frames
         IN /\ anim.status = "returned"
            /\ Len(anim.frames) > 0
            /\ FrameSlice(1, h) = {first_image}
            /\ FrameSlice(h + t + 1, h + t + h) =
                 {IF final_image # NoImage THEN final_image
                  ELSE anim.frames[h + t]}
            /\ anim.frames[1] = first_image
            /\ final_image # NoImage =>
                 anim.frames[Len(anim.frames)] = final_image

\* C7 witness: a cross-fade returned with two hold frames at each end and
\* three transition frames between images that differ.
C7_Witness ==
    /\ anim.status = "returned"
    /\ anim.hold_frames = 2
    /\ anim.transition_frames = 3
    /\ final_image # NoImage
    /\ final_image # first_image
    /\ Len(anim.frames) = 7
    /\ anim.frames[2] = first_image
    /\ anim.frames[6] = final_image

\* C8 (SpecAnim), the claim as stated: every frame of a returned animation
\* has the dimensions of first_image.
C8_ConstantDimensions ==
    anim.status = "returned" =>
      \A i \in 1..Len(anim.frames) : anim.frames[i].size = first_image.size

\* the video a returned pair must name when the encoder returned its path
\* for the temporary directory temp_dir
ExpectedVideo(temp_dir) ==
    Str(JoinPath(JoinPath(ParsePath(temp_dir),
                          Cat(cfg.domain, <<"_videos">>)),
                 Cat(pair.task_id, <<"_ground_truth.mp4">>)))

\* C9 (Spec): in each video outcome the call returns a complete TaskPair.
\* With video generation off or no encoder, the call returns once the task
\* data is generated, the encoder is not called and ground_truth_video is
\* None.  Once the encoder is called (once, on the frames and the path under
\* the directory made for it), the call returns whatever the encoder
\* returns: ground_truth_video is None for a falsy result and the returned
\* path as a string for any other.  No result of the encoder is raised to
\* the caller: when the call raises, the encoder was not reached and there
\* is no pair.
C9_VideoOutcome ==
    /\ pc = "returned" =>
         /\ pair.status = "returned"
         /\ pair.task_id \in TaskIds
         /\ pair.domain = cfg.domain
         /\ pair.prompt \in Range(PROMPTS["default"])
         /\ pair.first_image = first_image /\ first_image.kind = "image"
         /\ pair.final_image = final_image /\ final_image.kind = "image"
         /\ (~cfg.generate_videos \/ video_generator = None) =>
              /\ encoder_calls = <<>>
              /\ made_dirs = {}
              /\ pair.ground_truth_video = None
         /\ (cfg.generate_videos /\ video_generator # None) =>
              /\ Len(encoder_calls) = 1
              /\ Len(encoder_calls[1].frames) =
                   2 * DefaultHoldFrames + DefaultTransitionFrames
              /\ ~encoder_calls[1].result.truthy =>
                   pair.ground_truth_video = None
              /\ encoder_calls[1].result.truthy =>
                   /\ encoder_calls[1].result.path = encoder_calls[1].path
                   /\ pair.ground_truth_video =
                        Str(encoder_calls[1].result.path)
                   /\ \E temp_dir \in TempDirs :
                        /\ pair.ground_truth_video = ExpectedVideo(temp_dir)
                        /\ Str(VideoDir(cfg, temp_dir)) \in made_dirs
                        /\ Str(ParsePath(temp_dir)) \in made_dirs
    /\ (pc # "idle" /\ task_data.status = "ok"
        /\ (~cfg.generate_videos \/ video_generator = None)) =>
         pc = "returned"
    /\ (pc # "idle" /\ encoder_calls # <<>>) => pc = "returned"
    /\ pc = "raised" => encoder_calls = <<>> /\ pair = NoPair

\* C9 witness: the encoder was called on the 40 frames and returned a falsy
\* result; the pair is returned without a video.
C9_Witness ==
    /\ pc = "returned"
    /\ Len(encoder_calls) = 1
    /\ ~encoder_calls[1].result.truthy
    /\ Len(encoder_calls[1].frames) = 40
    /\ made_dirs # {}
    /\ pair.status = "returned"
    /\ pair.ground_truth_video = None

\* the task data without the shapes whose type _draw_shape does not know
WithoutUnknownShapes(td) ==
    [td EXCEPT !.shapes = SelectSeq(@, LAMBDA sh : sh.type \in KnownTypes)]

\* C10 (Spec): a shape of an unknown type changes no frame and raises
\* nothing: both frames are pixel-identical to the frames rendered from the
\* task data without those shapes.
C10_UnknownTypeDrawsNothing ==
    pc = "returned" =>
      /\ Pixels(first_image) =
           Pixels(RenderInitialState(cfg, WithoutUnknownShapes(task_data)))
      /\ Pixels(final_image) =
           Pixels(RenderFinalState(cfg, WithoutUnknownShapes(task_data)))

\* C10 witness: a returned pair whose shapes include a majority shape of an
\* unknown type and a shape of a known type.
C10_Witness ==
    /\ pc = "returned"
    /\ \E sh \in Range(task_data.shapes) :
         sh.type \notin KnownTypes /\ sh.is_majority
    /\ \E sh \in Range(task_data.shapes) : sh.type \in KnownTypes
    /\ Len(first_image.px.calls) < Len(task_data.shapes)
====
